---- MODULE Spec2Model ----
(***************************************************************************)
(* On-demand video generation pipeline: the search coordinator             *)
(* (backend/app/main.py: search_jobs, enqueue_generation_job), the         *)
(* generation queue (MongoDB collection generation_jobs), the video        *)
(* catalog (collection videos), the view ledger (collection                *)
(* user_job_views) and the generator worker with its stale-lease sweeper   *)
(* (services/generator/app/worker.py).                                     *)
(*                                                                         *)
(* Every MongoDB / object-store call is one atomic step; the handlers are  *)
(* coroutines / processes whose program counter sits between two calls.    *)
(* Time is abstract: a timestamp is "fresh" or "stale" with respect to the *)
(* threshold that reads it, and ageing is a step of the environment.       *)
(***************************************************************************)
EXTENDS Integers, Sequences, FiniteSets, TLC

VARIABLES
    generation_jobs,   \* collection generation_jobs: sequence of documents, in insertion (created_at) order
    grace_idx,         \* documents 1..grace_idx have created_at older than the claim grace window (2 s)
    videos,            \* collection videos: sequence of documents, in insertion order
    objects,           \* object store: the set of keys that have been PUT
    views,             \* collection user_job_views: set of <<user_id, greenhouse_id>> with seen = True, greenhouse_id a stored value
    search,            \* in-flight /jobs/search requests: per slot, the coroutine's locals and position
    worker,            \* generator workers: per worker, position in run_worker/process_job and claimed document
    last_response,     \* the SearchJobsResponse (or error) most recently returned to a client
    jobs,              \* collection jobs (read-only here): greenhouse_id of the active jobs
    budget             \* what the environment may still do: searches it may start, faults it may inject

vars == <<generation_jobs, grace_idx, videos, objects, views, search, worker, last_response, jobs, budget>>

-----------------------------------------------------------------------------
(* Bounds of the model *)

MaxSearches == 1            \* search requests the clients issue (Spec)
MaxFaults == 1              \* worker crashes, processing failures and leases that go stale (Spec)
MaxSequentialSearches == 2  \* the same, one request at a time and one worker (SpecSequential)
MaxSequentialFaults == 1
MaxConcurrentSearches == 4  \* the same, three requests at a time and no worker (SpecCoordinator)
MaxRetryFaults == 6         \* faults of the single job of SpecRetries
MaxLeaseFaults == 2         \* faults of SpecLease, on top of the leases that run out on their own
MaxCatalogSearches == 1     \* search requests over the large catalog (SpecCatalog)
MaxRejectionSearches == 2   \* search requests, one at a time, over three jobs without a video (SpecRejections)
MaxLedgerSearches == 1      \* search requests next to the clients' calls of the view ledger (SpecLedger)
MaxQueryLen == 3            \* characters of a query text (SpecQueries)
MaxQueueSearches == 2       \* search requests that fill the queue of two workers (SpecQueue)
MaxQueueFaults == 1         \* faults of SpecQueue
MaxClaimSearches == 2        \* search requests of SpecClaims
MaxClaimFaults == 4         \* crashes and failures of the single worker of SpecClaims
MaxProgressFaults == 1      \* faults of SpecProgress
MaxAttemptFaults == 4       \* processing failures and leases that go stale under a worker (SpecAttempts)

(* Program constants *)

MAX_RETRIES == 3
MAX_USER_CONCURRENT_JOBS == 2
TARGET_COUNT == 5
MAX_GENERATE_PER_REQUEST == 5
SIMILARITY_THRESHOLD == 75      \* 0.75, scores are in hundredths
FALLBACK_SCORE == 50            \* 0.5, the score the fallback find gives every job

NULL == "null"

Users == {"u1", "u2"}
Fingerprints == {"fpX", "fpY"}
Scores == {50, 80}              \* 0.5 is also the fallback sentinel score

-----------------------------------------------------------------------------
(* Helpers *)

Min(a, b) == IF a < b THEN a ELSE b

Range(s) == {s[i] : i \in DOMAIN s}

\* Take without the cut
TakeAll(s, n) == SubSeq(s, 1, Len(s))

\* s[:n]
Take(s, n) == SubSeq(s, 1, Min(n, Len(s)))

RECURSIVE SelectIdx(_, _)
\* indices of s, ascending, as a sequence restricted to the set keep
SelectIdx(s, keep) ==
    IF s = <<>> THEN <<>>
    ELSE LET rest == SelectIdx(SubSeq(s, 1, Len(s) - 1), keep)
         IN IF Len(s) \in keep THEN Append(rest, s[Len(s)]) ELSE rest

\* the elements of a set of ints, ascending
RECURSIVE Sorted(_)
Sorted(S) ==
    IF S = {} THEN <<>>
    ELSE LET m == CHOOSE x \in S : \A y \in S : x <= y
         IN <<m>> \o Sorted(S \ {m})

\* str(n): the decimal digits of a non-negative int
RECURSIVE Str(_)
Str(n) == IF n < 10 THEN <<n>> ELSE Append(Str(n \div 10), n % 10)

\* int(s) for a digit string
RECURSIVE ToInt(_)
ToInt(s) == IF Len(s) = 1 THEN s[1]
            ELSE 10 * ToInt(SubSeq(s, 1, Len(s) - 1)) + s[Len(s)]

-----------------------------------------------------------------------------
(* Query fingerprint: compute_query_fingerprint over strings as sequences of
   characters *)

\* the characters of the query texts: a letter, a letter in both cases, the
\* space and a punctuation mark
Alphabet == {"a", "b", "B", " ", ","}

\* the query texts of at most MaxQueryLen characters
Queries == UNION { [ 1..n -> Alphabet ] : n \in 0..MaxQueryLen }

\* ord(c)
CodePoint(c) ==
    CASE c = " " -> 32 [] c = "," -> 44 [] c = "B" -> 66 [] c = "a" -> 97 [] c = "b" -> 98

\* Lower that keeps the case
KeepCase(c) == c

\* str.lower, str.isalnum and str.isspace on one character
Lower(c) == IF c = "B" THEN "b" ELSE c
IsAlnum(c) == c \in {"a", "b", "B"}
IsSpace(c) == c = " "

\* str.strip
RECURSIVE Strip(_)
Strip(s) ==
    IF s = <<>> THEN s
    ELSE IF IsSpace(Head(s)) THEN Strip(Tail(s))
    ELSE IF IsSpace(s[Len(s)]) THEN Strip(SubSeq(s, 1, Len(s) - 1))
    ELSE s

\* str.split(): the maximal runs without whitespace
RECURSIVE Split(_)
Split(s) ==
    IF s = <<>> THEN <<>>
    ELSE IF IsSpace(Head(s)) THEN Split(Tail(s))
    ELSE LET spaces == { i \in DOMAIN s : IsSpace(s[i]) }
             end == IF spaces = {} THEN Len(s) + 1
                    ELSE CHOOSE i \in spaces : \A j \in spaces : i <= j
         IN <<SubSeq(s, 1, end - 1)>> \o Split(SubSeq(s, end, Len(s)))

\* a <= b for strings: by code point, a prefix before its extensions
RECURSIVE StrLeq(_, _)
StrLeq(a, b) ==
    IF a = <<>> THEN TRUE
    ELSE IF b = <<>> THEN FALSE
    ELSE IF Head(a) = Head(b) THEN StrLeq(Tail(a), Tail(b))
    ELSE CodePoint(Head(a)) < CodePoint(Head(b))

\* sorted(words)
RECURSIVE SortedWords(_)
SortedWords(words) ==
    IF words = <<>> THEN <<>>
    ELSE LET m == CHOOSE i \in DOMAIN words : \A j \in DOMAIN words : StrLeq(words[i], words[j])
         IN <<words[m]>> \o SortedWords([ k \in 1..(Len(words) - 1) |->
                                            IF k < m THEN words[k] ELSE words[k + 1] ])

\* ' '.join(words)
RECURSIVE Join(_)
Join(words) ==
    IF words = <<>> THEN <<>>
    ELSE IF Len(words) = 1 THEN words[1]
    ELSE words[1] \o <<" ">> \o Join(Tail(words))

\* hashlib.sha256(..).hexdigest()[:16]: the digest stands for the text it was
\* computed from (no collisions among the texts considered)
Sha256Hex16(text) == [ sha256 |-> text ]

compute_query_fingerprint(query) ==
    LET Kept(c) == IsAlnum(c) \/ IsSpace(c)
        lowered == [ i \in DOMAIN query |-> Lower(query[i]) ]
        normalized == SelectSeq(Strip(lowered), Kept)
        words == SortedWords(Split(normalized))
        canonical == Join(words)
    IN Sha256Hex16(canonical)

-----------------------------------------------------------------------------
(* Stored values: a document field holds an int or a string, and an equality
   match, a unique index included, tells the two apart *)

\* the int n as a stored value
Int32(n) == [ type |-> "int", repr |-> Str(n) ]

\* the digit string s as a stored value
String(s) == [ type |-> "string", repr |-> s ]

\* int(value), for an int or a digit string
AsInt(value) == ToInt(value.repr)

-----------------------------------------------------------------------------
(* Generation queue: documents and queries *)

\* NewJobDoc with the job's own id as output_video_id
NewJobDocKeyedByJobId(job_id, greenhouse_id, query_fingerprint, user_id) ==
    [ job_id            |-> job_id,
      greenhouse_id     |-> greenhouse_id,
      query_fingerprint |-> query_fingerprint,
      user_id           |-> user_id,
      status            |-> "queued",
      started_at        |-> NULL,
      output_video_id   |-> Str(job_id),
      error             |-> NULL,
      retry_count       |-> 0,
      worker_id         |-> NULL ]

\* job_doc of enqueue_generation_job; job_id (a fresh uuid4) is the insertion index
NewJobDoc(job_id, greenhouse_id, query_fingerprint, user_id) ==
    [ job_id            |-> job_id,
      greenhouse_id     |-> greenhouse_id,
      query_fingerprint |-> query_fingerprint,
      user_id           |-> user_id,
      status            |-> "queued",
      started_at        |-> NULL,
      output_video_id   |-> Str(greenhouse_id),
      error             |-> NULL,
      retry_count       |-> 0,
      worker_id         |-> NULL ]

\* ExistingJob with finished jobs left out of the filter as well
ExistingJobUnfinished(query_fingerprint, greenhouse_id) ==
    { i \in DOMAIN generation_jobs :
        /\ generation_jobs[i].query_fingerprint = query_fingerprint
        /\ generation_jobs[i].greenhouse_id = greenhouse_id
        /\ generation_jobs[i].status \notin {"failed", "ready"} }

\* find_one({query_fingerprint, greenhouse_id, status: {$nin: ["failed"]}})
ExistingJob(query_fingerprint, greenhouse_id) ==
    { i \in DOMAIN generation_jobs :
        /\ generation_jobs[i].query_fingerprint = query_fingerprint
        /\ generation_jobs[i].greenhouse_id = greenhouse_id
        /\ generation_jobs[i].status \notin {"failed"} }

\* ActiveCount without the user's documents
ActiveCountNone(user_id) ==
    Cardinality({ i \in DOMAIN generation_jobs :
        /\ generation_jobs[i].user_id = user_id
        /\ generation_jobs[i].status \in {} })

\* count_documents({user_id, status: {$in: ["queued", "running"]}})
ActiveCount(user_id) ==
    Cardinality({ i \in DOMAIN generation_jobs :
        /\ generation_jobs[i].user_id = user_id
        /\ generation_jobs[i].status \in {"queued", "running"} })

\* update_one({"job_id": job_id}, {"$set": {"status": status [, "error": error]}})
update_job_status(job_id, status, error) ==
    [ i \in DOMAIN generation_jobs |->
        IF generation_jobs[i].job_id = job_id
        THEN [ generation_jobs[i] EXCEPT
                 !.status = status,
                 !.error = IF error # NULL THEN error ELSE @ ]
        ELSE generation_jobs[i] ]

\* the retry write of process_job's except branch
RequeueForRetry(job_id, error) ==
    [ i \in DOMAIN generation_jobs |->
        IF generation_jobs[i].job_id = job_id
        THEN [ generation_jobs[i] EXCEPT
                 !.status = "queued",
                 !.error = error,
                 !.worker_id = NULL,
                 !.started_at = NULL,
                 !.retry_count = @ + 1 ]
        ELSE generation_jobs[i] ]

\* HandleFailure that records the error and leaves the status as it is
HandleFailureKeepingStatus(job) ==
    [ i \in DOMAIN generation_jobs |->
        IF generation_jobs[i].job_id = job.job_id
        THEN [ generation_jobs[i] EXCEPT !.error = "error", !.retry_count = @ + 1 ]
        ELSE generation_jobs[i] ]

\* process_job's except branch; job is the document as the worker read it at claim
HandleFailure(job) ==
    IF job.retry_count < MAX_RETRIES
    THEN RequeueForRetry(job.job_id, "error")
    ELSE update_job_status(job.job_id, "failed", "error")

\* Claimable without the condition on status
ClaimableAnyStatus ==
    { i \in DOMAIN generation_jobs :
        generation_jobs[i].status \in {"queued", "running"} /\ i <= grace_idx }

\* filter of claim_job's find_one_and_update
Claimable ==
    { i \in DOMAIN generation_jobs :
        generation_jobs[i].status = "queued" /\ i <= grace_idx }

\* OldestClaimable with the sort order reversed
NewestClaimable == CHOOSE c \in Claimable : \A d \in Claimable : c >= d

\* sort=[("created_at", 1)] of claim_job's find_one_and_update
OldestClaimable == CHOOSE c \in Claimable : \A d \in Claimable : c <= d

\* StaleJobs without the condition on started_at
RunningJobs ==
    { i \in DOMAIN generation_jobs : generation_jobs[i].status = "running" }

\* filter of reset_stale_jobs' update_many
StaleJobs ==
    { i \in DOMAIN generation_jobs :
        generation_jobs[i].status = "running" /\ generation_jobs[i].started_at = "stale" }

-----------------------------------------------------------------------------
(* Video catalog and object store *)

\* upload_hls_to_spaces: the key of the master manifest
ManifestKey(video_id) == <<"hls", video_id, "master.m3u8">>

\* VideoDoc keyed by the generation job's own id instead of its target
VideoDocKeyedByJobId(job) ==
    [ video_id          |-> job.job_id,
      s3_key            |-> ManifestKey(job.output_video_id),
      status            |-> "ready",
      generation_job_id |-> job.job_id ]

\* video_doc of create_video_document
VideoDoc(job) ==
    [ video_id          |-> ToInt(job.output_video_id),
      s3_key            |-> ManifestKey(job.output_video_id),
      status            |-> "ready",
      generation_job_id |-> job.job_id ]

\* VideoIdTaken without the unique index
VideoIdNeverTaken(video_id) == \E k \in DOMAIN videos : videos[k].video_id = video_id /\ FALSE

\* unique index video_id_unique_idx: insert_one raises DuplicateKeyError
VideoIdTaken(video_id) == \E k \in DOMAIN videos : videos[k].video_id = video_id

-----------------------------------------------------------------------------
(* Worker: run_worker loop and process_job *)

\* job = None of run_worker, as a document no collection holds
NoJob == NewJobDoc(0, 0, NULL, NULL)

IdleWorker == [ pc |-> "poll", job |-> NoJob ]

WorkerAt(w, pcs) == worker[w].pc \in pcs

\* worker w is in process_job with generation job i
Holds(w, i) == worker[w].pc # "poll" /\ worker[w].job.job_id = i

\* claim_job: find_one_and_update, oldest queued document past the grace window
claim_job(w) ==
    /\ WorkerAt(w, {"poll"})
    /\ Claimable # {}
    /\ LET i == OldestClaimable
           claimed == [ generation_jobs[i] EXCEPT
                          !.status = "running",
                          !.started_at = "fresh",
                          !.worker_id = w ]
       IN /\ generation_jobs' = [ generation_jobs EXCEPT ![i] = claimed ]
          /\ worker' = [ worker EXCEPT ![w] = [ pc |-> "describe", job |-> claimed ] ]
    /\ UNCHANGED <<grace_idx, videos, objects, views, search, last_response, jobs, budget>>

\* reset_stale_jobs, run from the worker loop before it polls
reset_stale_jobs(w) ==
    /\ WorkerAt(w, {"poll"})
    /\ StaleJobs # {}
    /\ generation_jobs' =
         [ i \in DOMAIN generation_jobs |->
             IF i \in StaleJobs
             THEN [ generation_jobs[i] EXCEPT
                      !.status = "queued",
                      !.worker_id = NULL,
                      !.started_at = NULL,
                      !.retry_count = @ + 1 ]
             ELSE generation_jobs[i] ]
    /\ UNCHANGED <<grace_idx, videos, objects, views, search, worker, last_response, jobs, budget>>

\* process_job step 1 succeeded; step 2 begins with update_job_status(.., "running")
DescriptionFound(w) ==
    /\ WorkerAt(w, {"describe"})
    /\ generation_jobs' = update_job_status(worker[w].job.job_id, "running", NULL)
    /\ worker' = [ worker EXCEPT ![w].pc = "render" ]
    /\ UNCHANGED <<grace_idx, videos, objects, views, search, last_response, jobs, budget>>

\* generate_video returned; step 3 begins with update_job_status(.., "uploaded")
VideoGenerated(w) ==
    /\ WorkerAt(w, {"render"})
    /\ generation_jobs' = update_job_status(worker[w].job.job_id, "uploaded", NULL)
    /\ worker' = [ worker EXCEPT ![w].pc = "upload" ]
    /\ UNCHANGED <<grace_idx, videos, objects, views, search, last_response, jobs, budget>>

\* upload_hls_to_spaces: put_object of every file of the bundle
upload_hls_to_spaces(w) ==
    /\ WorkerAt(w, {"upload"})
    /\ objects' = objects \cup { ManifestKey(worker[w].job.output_video_id) }
    /\ worker' = [ worker EXCEPT ![w].pc = "index" ]
    /\ UNCHANGED <<generation_jobs, grace_idx, videos, views, search, last_response, jobs, budget>>

\* step 4 begins with update_job_status(.., "indexed")
MarkIndexed(w) ==
    /\ WorkerAt(w, {"index"})
    /\ generation_jobs' = update_job_status(worker[w].job.job_id, "indexed", NULL)
    /\ worker' = [ worker EXCEPT ![w].pc = "insert" ]
    /\ UNCHANGED <<grace_idx, videos, objects, views, search, last_response, jobs, budget>>

\* create_video_document: insert_one succeeds when video_id is new
create_video_document(w) ==
    /\ WorkerAt(w, {"insert"})
    /\ ~ VideoIdTaken(VideoDoc(worker[w].job).video_id)
    /\ videos' = Append(videos, VideoDoc(worker[w].job))
    /\ worker' = [ worker EXCEPT ![w].pc = "finish" ]
    /\ UNCHANGED <<generation_jobs, grace_idx, objects, views, search, last_response, jobs, budget>>

\* create_video_document: insert_one raises DuplicateKeyError, caught by process_job
DuplicateVideo(w) ==
    /\ WorkerAt(w, {"insert"})
    /\ VideoIdTaken(VideoDoc(worker[w].job).video_id)
    /\ generation_jobs' = HandleFailure(worker[w].job)
    /\ worker' = [ worker EXCEPT ![w] = IdleWorker ]
    /\ UNCHANGED <<grace_idx, videos, objects, views, search, last_response, jobs, budget>>

\* step 5: update_job_status(.., "ready"); process_job returns True
MarkReady(w) ==
    /\ WorkerAt(w, {"finish"})
    /\ generation_jobs' = update_job_status(worker[w].job.job_id, "ready", NULL)
    /\ worker' = [ worker EXCEPT ![w] = IdleWorker ]
    /\ UNCHANGED <<grace_idx, videos, objects, views, search, last_response, jobs, budget>>

\* an exception in steps 1-4 (description missing or short, renderer, upload,
\* insert): process_job's except branch; process_job returns False
ProcessFails(w) ==
    /\ WorkerAt(w, {"describe", "render", "upload", "insert"})
    /\ budget.faults > 0
    /\ budget' = [ budget EXCEPT !.faults = @ - 1 ]
    /\ generation_jobs' = HandleFailure(worker[w].job)
    /\ worker' = [ worker EXCEPT ![w] = IdleWorker ]
    /\ UNCHANGED <<grace_idx, videos, objects, views, search, last_response, jobs>>

\* the worker process dies while it holds a job and is started again
WorkerCrash(w) ==
    /\ ~ WorkerAt(w, {"poll"})
    /\ budget.faults > 0
    /\ budget' = [ budget EXCEPT !.faults = @ - 1 ]
    /\ worker' = [ worker EXCEPT ![w] = IdleWorker ]
    /\ UNCHANGED <<generation_jobs, grace_idx, videos, objects, views, search, last_response, jobs>>

(* Passage of time *)

\* a lease's started_at falls behind utcnow() - JOB_TIMEOUT_MINUTES
LeaseAges(i) ==
    /\ i \in DOMAIN generation_jobs
    /\ generation_jobs[i].started_at = "fresh"
    /\ budget.faults > 0
    /\ budget' = [ budget EXCEPT !.faults = @ - 1 ]
    /\ generation_jobs' = [ generation_jobs EXCEPT ![i].started_at = "stale" ]
    /\ UNCHANGED <<grace_idx, videos, objects, views, search, worker, last_response, jobs>>

\* the same for a job that no running process_job holds: with nobody to finish
\* it, JOB_TIMEOUT_MINUTES pass
LeaseExpires(i) ==
    /\ i \in DOMAIN generation_jobs
    /\ generation_jobs[i].started_at = "fresh"
    /\ \A w \in DOMAIN worker : ~ Holds(w, i)
    /\ generation_jobs' = [ generation_jobs EXCEPT ![i].started_at = "stale" ]
    /\ UNCHANGED <<grace_idx, videos, objects, views, search, worker, last_response, jobs, budget>>

\* the oldest recent document's created_at falls behind utcnow() - 2 s
GraceElapses ==
    /\ grace_idx < Len(generation_jobs)
    /\ grace_idx' = grace_idx + 1
    /\ UNCHANGED <<generation_jobs, videos, objects, views, search, worker, last_response, jobs, budget>>

-----------------------------------------------------------------------------
(* Search coordinator: search_jobs and enqueue_generation_job *)

IdleSearch ==
    [ pc                   |-> "idle",
      user_id              |-> NULL,
      text_prompt          |-> <<>>,    \* request.text_prompt, where the model follows the text
      query_fingerprint    |-> NULL,
      seen                 |-> {},      \* seen_greenhouse_ids_as_ints
      views_reset          |-> FALSE,   \* the handler has run delete_many on the user's views
      job_results          |-> <<>>,
      results_to_return    |-> <<>>,
      to_mark              |-> <<>>,    \* rest of the mark-seen loop
      jobs_to_generate     |-> <<>>,    \* rest of the enqueue loop
      generation_triggered |-> FALSE,
      generation_job_ids   |-> <<>>,
      status_code          |-> 0 ]

NoResponse ==
    [ user_id              |-> NULL,
      greenhouse_ids       |-> <<>>,
      count                |-> 0,
      generation_triggered |-> FALSE,
      generation_job_ids   |-> <<>>,
      status_code          |-> 0 ]

\* SearchJobsResponse(...) as built from the handler's locals
SearchJobsResponse(req) ==
    [ user_id              |-> req.user_id,
      greenhouse_ids       |-> req.results_to_return,
      count                |-> Len(req.results_to_return),
      generation_triggered |-> req.generation_triggered,
      generation_job_ids   |-> req.generation_job_ids,
      status_code          |-> req.status_code ]

\* what the vector index (or the fallback find) may return for a filter that
\* excludes the ids in excluded: distinct active jobs, best score first
CandidateLists(excluded) ==
    LET Entries == [ greenhouse_id : jobs \ excluded, score : Scores ]
        Lists == UNION { [ 1..n -> Entries ] : n \in 0..Cardinality(jobs) }
    IN { s \in Lists :
           /\ \A i, j \in DOMAIN s : i < j =>
                 /\ s[i].greenhouse_id # s[j].greenhouse_id
                 /\ s[i].score >= s[j].score }

\* MatchesFilter without the $nin condition on greenhouse_id
MatchesFilterActiveOnly(cands, excluded) ==
    /\ \A i \in DOMAIN cands : cands[i].greenhouse_id \in jobs
    /\ \A i, j \in DOMAIN cands : i < j =>
          /\ cands[i].greenhouse_id # cands[j].greenhouse_id
          /\ cands[i].score >= cands[j].score

\* cands is a result of the vector search (or of the fallback find) under the
\* filter {active: True, greenhouse_id: {$nin: excluded}}
MatchesFilter(cands, excluded) ==
    /\ \A i \in DOMAIN cands : cands[i].greenhouse_id \in jobs \ excluded
    /\ \A i, j \in DOMAIN cands : i < j =>
          /\ cands[i].greenhouse_id # cands[j].greenhouse_id
          /\ cands[i].score >= cands[j].score

\* CandidateLists for a large collection: the lists in which the jobs come in
\* id order, a first part of them with the best score and the rest with the worst
RankedLists(excluded) ==
    LET best == CHOOSE x \in Scores : \A y \in Scores : x >= y
        worst == CHOOSE x \in Scores : \A y \in Scores : x <= y
        Ranked(ids, c) ==
            [ k \in DOMAIN ids |->
                [ greenhouse_id |-> ids[k], score |-> IF k <= c THEN best ELSE worst ] ]
    IN { Ranked(Sorted(S), c) : S \in SUBSET (jobs \ excluded), c \in 0..Cardinality(jobs) }

\* the handler returns
Respond(req, code) == [ req EXCEPT !.pc = "responded", !.status_code = code ]

\* ToMarkSeen with the loop left out
RespondUnmarked(req) == Respond(req, 200)

\* step 7 and the return: the mark-seen loop over results_to_return
ToMarkSeen(req) ==
    IF req.results_to_return = <<>>
    THEN Respond(req, 200)
    ELSE [ req EXCEPT !.pc = "mark_seen", !.to_mark = req.results_to_return ]

\* JobsToGenerate without the cut to the deficit
JobsToGenerateUncapped(above, without) ==
    IF Len(above) >= TARGET_COUNT THEN <<>> ELSE without

\* JobsToGenerate without the test for enough ready videos
JobsToGenerateAlways(above, without) == Take(without, MAX_GENERATE_PER_REQUEST)

\* step 6: the jobs the handler calls enqueue_generation_job for
JobsToGenerate(above, without) ==
    IF Len(above) >= TARGET_COUNT
    THEN <<>>
    ELSE LET deficit == TARGET_COUNT - Len(above)
         IN Take(without, Min(deficit, MAX_GENERATE_PER_REQUEST))

\* search_jobs steps 5-6, from the catalog read jobs_with_videos
Decide(req, jobs_with_videos) ==
    LET HasVideoAbove(j) == j.greenhouse_id \in jobs_with_videos /\ j.score >= SIMILARITY_THRESHOLD
        HasVideoBelow(j) == j.greenhouse_id \in jobs_with_videos /\ j.score < SIMILARITY_THRESHOLD
        NoVideoAbove(j)  == j.greenhouse_id \notin jobs_with_videos /\ j.score >= SIMILARITY_THRESHOLD
        Ids(l) == [ k \in DOMAIN l |-> Str(l[k].greenhouse_id) ]
        above   == SelectSeq(req.job_results, HasVideoAbove)
        below   == SelectSeq(req.job_results, HasVideoBelow)
        without == SelectSeq(req.job_results, NoVideoAbove)
        available == above \o below
        to_generate == JobsToGenerate(above, without)
        results == IF Len(above) >= TARGET_COUNT
                   THEN Ids(Take(above, TARGET_COUNT))
                   ELSE Ids(Take(available, TARGET_COUNT))
    IN IF available = <<>> /\ req.seen # {}
       THEN [ req EXCEPT !.pc = "reset", !.job_results = <<>> ]
       ELSE IF to_generate # <<>>
       THEN [ req EXCEPT !.pc = "enqueue_find",
                         !.job_results = <<>>,
                         !.results_to_return = results,
                         !.generation_triggered = TRUE,
                         !.jobs_to_generate =
                             [ k \in DOMAIN to_generate |-> to_generate[k].greenhouse_id ] ]
       ELSE ToMarkSeen([ req EXCEPT !.job_results = <<>>, !.results_to_return = results ])

\* enqueue_generation_job returned: the loop goes on to its next job, or the
\* handler to step 7
NextEnqueue(req) ==
    LET rest == Tail(req.jobs_to_generate)
    IN IF rest # <<>>
       THEN [ req EXCEPT !.pc = "enqueue_find", !.jobs_to_generate = rest ]
       ELSE ToMarkSeen([ req EXCEPT !.jobs_to_generate = rest ])

\* the coroutine of slot r moves on with locals req; a returned response
\* frees the slot
Continue(r, req) ==
    IF req.pc = "responded"
    THEN /\ search' = [ search EXCEPT ![r] = IdleSearch ]
         /\ last_response' = SearchJobsResponse(req)
    ELSE /\ search' = [ search EXCEPT ![r] = req ]
         /\ UNCHANGED last_response

\* step 2: seen_greenhouse_ids_as_ints, from the user's views of either type
SeenInts(u) == { AsInt(v[2]) : v \in { x \in views : x[1] = u } }

\* steps 1-3: fingerprint, seen list, vector search (or its fallback)
SearchBegin(r, u, fp, cands) ==
    /\ search[r].pc = "idle"
    /\ budget.searches > 0
    /\ budget' = [ budget EXCEPT !.searches = @ - 1 ]
    /\ LET seen == SeenInts(u)
           req == [ IdleSearch EXCEPT !.user_id = u, !.query_fingerprint = fp, !.seen = seen ]
       IN /\ MatchesFilter(cands, seen)
          /\ Continue(r, IF cands # <<>> THEN [ req EXCEPT !.pc = "catalog", !.job_results = cands ]
                         ELSE IF seen # {} THEN [ req EXCEPT !.pc = "retry" ]
                         ELSE Respond(req, 200))
    /\ UNCHANGED <<generation_jobs, grace_idx, videos, objects, views, worker, jobs>>

\* search_jobs from the request's text: the fingerprint is computed from it
search_jobs(r, u, text_prompt, cands) ==
    /\ search[r].pc = "idle"
    /\ budget.searches > 0
    /\ budget' = [ budget EXCEPT !.searches = @ - 1 ]
    /\ LET seen == SeenInts(u)
           req == [ IdleSearch EXCEPT !.user_id = u,
                                      !.text_prompt = text_prompt,
                                      !.query_fingerprint = compute_query_fingerprint(text_prompt),
                                      !.seen = seen ]
       IN /\ MatchesFilter(cands, seen)
          /\ Continue(r, IF cands # <<>> THEN [ req EXCEPT !.pc = "catalog", !.job_results = cands ]
                         ELSE IF seen # {} THEN [ req EXCEPT !.pc = "retry" ]
                         ELSE Respond(req, 200))
    /\ UNCHANGED <<generation_jobs, grace_idx, videos, objects, views, worker, jobs>>

\* the fallback find under the same filter: every matching job (the catalog is
\* smaller than VECTOR_SEARCH_LIMIT), each with the default score
FallbackResults(excluded) ==
    LET ids == Sorted(jobs \ excluded)
    IN [ k \in DOMAIN ids |-> [ greenhouse_id |-> ids[k], score |-> FALLBACK_SCORE ] ]

\* steps 1-3 when the aggregate raises: the except branch runs the fallback find
SearchBeginFallback(r, u, fp) ==
    SearchBegin(r, u, fp, FallbackResults(SeenInts(u)))

\* SearchRetry without the delete_many
SearchRetryKeepingViews(r, cands) ==
    /\ search[r].pc = "retry"
    /\ MatchesFilter(cands, {})
    /\ LET req == [ search[r] EXCEPT !.views_reset = TRUE ]
       IN Continue(r, IF cands # <<>>
                      THEN [ req EXCEPT !.pc = "catalog", !.job_results = cands ]
                      ELSE Respond(req, 200))
    /\ UNCHANGED <<generation_jobs, grace_idx, videos, objects, views, worker, jobs, budget>>

\* no results but the user has seen jobs: delete the views, search again unfiltered
SearchRetry(r, cands) ==
    /\ search[r].pc = "retry"
    /\ MatchesFilter(cands, {})
    /\ views' = { v \in views : v[1] # search[r].user_id }
    /\ LET req == [ search[r] EXCEPT !.views_reset = TRUE ]
       IN Continue(r, IF cands # <<>>
                      THEN [ req EXCEPT !.pc = "catalog", !.job_results = cands ]
                      ELSE Respond(req, 200))
    /\ UNCHANGED <<generation_jobs, grace_idx, videos, objects, worker, jobs, budget>>

\* the second aggregate is outside any try: an index failure is answered 500
SearchRetryFails(r) ==
    /\ search[r].pc = "retry"
    /\ views' = { v \in views : v[1] # search[r].user_id }
    /\ Continue(r, Respond([ search[r] EXCEPT !.views_reset = TRUE ], 500))
    /\ UNCHANGED <<generation_jobs, grace_idx, videos, objects, worker, jobs, budget>>

\* steps 4-6: read the catalog, partition, decide
SearchPartition(r) ==
    /\ search[r].pc = "catalog"
    /\ LET greenhouse_ids == { search[r].job_results[k].greenhouse_id :
                                 k \in DOMAIN search[r].job_results }
           jobs_with_videos == { videos[k].video_id : k \in
                                 { k \in DOMAIN videos : /\ videos[k].video_id \in greenhouse_ids
                                                         /\ videos[k].status = "ready" } }
       IN Continue(r, Decide(search[r], jobs_with_videos))
    /\ UNCHANGED <<generation_jobs, grace_idx, videos, objects, views, worker, jobs, budget>>

\* SearchReset without the delete_many
SearchResetKeepingViews(r) ==
    /\ search[r].pc = "reset"
    /\ Continue(r, [ search[r] EXCEPT !.pc = "all_videos", !.views_reset = TRUE ])
    /\ UNCHANGED <<generation_jobs, grace_idx, videos, objects, views, worker, jobs, budget>>

\* step 5.5: delete the user's views
SearchReset(r) ==
    /\ search[r].pc = "reset"
    /\ views' = { v \in views : v[1] # search[r].user_id }
    /\ Continue(r, [ search[r] EXCEPT !.pc = "all_videos", !.views_reset = TRUE ])
    /\ UNCHANGED <<generation_jobs, grace_idx, videos, objects, worker, jobs, budget>>

\* step 5.5: up to TARGET_COUNT ready videos of the whole catalog
SearchAllVideos(r) ==
    /\ search[r].pc = "all_videos"
    /\ LET ready == SelectIdx(videos, { k \in DOMAIN videos : videos[k].status = "ready" })
           ids == Take([ k \in DOMAIN ready |-> Str(ready[k].video_id) ], TARGET_COUNT)
       IN Continue(r, ToMarkSeen([ search[r] EXCEPT !.results_to_return = ids ]))
    /\ UNCHANGED <<generation_jobs, grace_idx, videos, objects, views, worker, jobs, budget>>

\* enqueue_generation_job: the find_one for an existing job
EnqueueFind(r) ==
    /\ search[r].pc = "enqueue_find"
    /\ Continue(r, IF ExistingJob(search[r].query_fingerprint, Head(search[r].jobs_to_generate)) # {}
                   THEN NextEnqueue(search[r])
                   ELSE [ search[r] EXCEPT !.pc = "enqueue_count" ])
    /\ UNCHANGED <<generation_jobs, grace_idx, videos, objects, views, worker, jobs, budget>>

\* enqueue_generation_job: the count_documents of the user's active jobs
EnqueueCount(r) ==
    /\ search[r].pc = "enqueue_count"
    /\ Continue(r, IF ActiveCount(search[r].user_id) >= MAX_USER_CONCURRENT_JOBS
                   THEN NextEnqueue(search[r])
                   ELSE [ search[r] EXCEPT !.pc = "enqueue_insert" ])
    /\ UNCHANGED <<generation_jobs, grace_idx, videos, objects, views, worker, jobs, budget>>

\* enqueue_generation_job: insert_one(job_doc); no unique index covers the
\* document, so DuplicateKeyError is never raised
EnqueueInsert(r) ==
    /\ search[r].pc = "enqueue_insert"
    /\ LET job_id == Len(generation_jobs) + 1
           req == search[r]
       IN /\ generation_jobs' = Append(generation_jobs,
                 NewJobDoc(job_id, Head(req.jobs_to_generate), req.query_fingerprint, req.user_id))
          /\ Continue(r, NextEnqueue([ req EXCEPT !.generation_job_ids = Append(@, job_id) ]))
    /\ UNCHANGED <<grace_idx, videos, objects, views, worker, jobs, budget>>

\* step 7: update_one(.., {"$set": {"seen": True}}, upsert=True) for the next id
MarkSeen(r) ==
    /\ search[r].pc = "mark_seen"
    /\ views' = views \cup { <<search[r].user_id, Int32(ToInt(Head(search[r].to_mark)))>> }
    /\ Continue(r, IF Tail(search[r].to_mark) = <<>>
                   THEN Respond(search[r], 200)
                   ELSE [ search[r] EXCEPT !.to_mark = Tail(@) ])
    /\ UNCHANGED <<generation_jobs, grace_idx, videos, objects, worker, jobs, budget>>

-----------------------------------------------------------------------------
(* View ledger endpoints *)

\* POST /user-job-views/mark-seen: the upsert keyed by the request's
\* greenhouse_id, a string
mark_job_as_seen(user_id, greenhouse_id) ==
    /\ views' = views \cup { <<user_id, String(greenhouse_id)>> }
    /\ UNCHANGED <<generation_jobs, grace_idx, videos, objects, search, worker, last_response, jobs, budget>>

\* the body reset_user_job_views returns
ResetResponse(user_id, deleted_count) ==
    [ user_id       |-> user_id,
      deleted_count |-> deleted_count,
      status_code   |-> 200 ]

\* reset_user_job_views with a filter that matches every document
ResetEveryUser(user_id) ==
    /\ views' = {}
    /\ last_response' = ResetResponse(user_id, Cardinality(views))
    /\ UNCHANGED <<generation_jobs, grace_idx, videos, objects, search, worker, jobs, budget>>

\* DELETE /user-job-views/reset: delete_many({"user_id": user_id}) and the
\* deleted_count of its result
reset_user_job_views(user_id) ==
    /\ views' = { v \in views : v[1] # user_id }
    /\ last_response' = ResetResponse(user_id, Cardinality(views \ views'))
    /\ UNCHANGED <<generation_jobs, grace_idx, videos, objects, search, worker, jobs, budget>>

-----------------------------------------------------------------------------
(* The system *)

\* A database in which the jobs of `generated` got their videos a day or more
\* ago (their generation_jobs documents are gone by the 24 h TTL index) and the
\* pairs of `seen` have been returned by earlier searches; request slots,
\* workers and job corpus as given
InitWith(slots, workers, corpus, generated, seen, searches, faults) ==
    /\ generation_jobs = <<>>
    /\ grace_idx = 0
    /\ videos = [ k \in 1..Cardinality(generated) |->
                   [ video_id          |-> Sorted(generated)[k],
                     s3_key            |-> ManifestKey(Str(Sorted(generated)[k])),
                     status            |-> "ready",
                     generation_job_id |-> 0 ] ]
    /\ objects = { ManifestKey(Str(g)) : g \in generated }
    /\ views = { <<p[1], Int32(p[2])>> : p \in seen }
    /\ search = [ r \in slots |-> IdleSearch ]
    /\ worker = [ w \in workers |-> IdleWorker ]
    /\ last_response = NoResponse
    /\ jobs = corpus
    /\ budget = [ searches |-> searches, faults |-> faults ]

\* one request at a time, two workers
Init == InitWith({1}, {"w1", "w2"}, {7, 12}, {7}, {<<"u1", 7>>}, MaxSearches, MaxFaults)

\* one request at a time, one worker
InitSequential ==
    InitWith({1}, {"w1"}, {7, 12}, {7}, {<<"u1", 7>>}, MaxSequentialSearches, MaxSequentialFaults)

\* three concurrent requests on a database without videos and views; the
\* workers are not running
InitCoordinator == InitWith({1, 2, 3}, {}, {12}, {}, {}, MaxConcurrentSearches, 0)

\* one request, two workers, many faults
InitRetries == InitWith({1}, {"w1", "w2"}, {7, 12}, {7}, {<<"u1", 7>>}, 1, MaxRetryFaults)

\* one request, two workers, a database without videos and views
InitLease == InitWith({1}, {"w1", "w2"}, {12}, {}, {}, 1, MaxLeaseFaults)

\* one request, no worker, a catalog with more ready videos than a response
\* holds and one job without a video
InitCatalog == InitWith({1}, {}, 7..13, 7..12, {<<"u1", 7>>}, MaxCatalogSearches, 0)

\* a single request, no worker, the same catalog with the video of a job that
\* is no longer active, and two jobs without a video
InitPartition == InitWith({1}, {}, 5..12, {4} \cup 7..12, {<<"u1", 12>>}, 1, 0)

\* two requests one after the other, no worker, one job with a video and three
\* without
InitRejections == InitWith({1}, {}, {3, 5, 6, 7}, {7}, {}, MaxRejectionSearches, 0)

\* one request and the clients of the view ledger, no worker
InitLedger == InitWith({1}, {}, {7, 12}, {7}, {}, MaxLedgerSearches, 0)

\* two requests with a query text, one after the other, no worker, one job
\* with a video and one without
InitQueries == InitWith({1}, {}, {7, 12}, {7}, {}, 2, 0)

\* requests one at a time that find no video for the one active job, two
\* workers; the catalog holds the video of a job no longer active, which a
\* user has seen
InitQueue == InitWith({1}, {"w1", "w2"}, {12}, {7}, {<<"u1", 7>>}, MaxQueueSearches, MaxQueueFaults)

\* a single request, no worker, six jobs without a video and one with a video
\* that a user has seen
InitBacklog == InitWith({1}, {}, 1..7, {7}, {<<"u1", 7>>}, 1, 0)

\* one request that finds one job without a video, two workers that stay up
InitAttempts == InitWith({1}, {"w1", "w2"}, {12}, {}, {}, 1, MaxAttemptFaults)

\* requests one at a time that find one job without a video, a single worker
InitClaims == InitWith({1}, {"w1"}, {12}, {}, {}, MaxClaimSearches, MaxClaimFaults)

\* one request that finds two jobs without a video, two workers
InitProgress == InitWith({1}, {"w1", "w2"}, {7, 12}, {}, {}, 1, MaxProgressFaults)

\* request slots are interchangeable: a new request takes the lowest free one
FreeSlot(r) == search[r].pc = "idle" /\ \A q \in DOMAIN search : q < r => search[q].pc # "idle"

\* workers are interchangeable: the lowest polling worker is the one whose poll
\* finds the job
FirstPolling(w) == w = CHOOSE v \in DOMAIN worker : worker[v].pc = "poll"

\* query fingerprints are interchangeable: a query is one seen before, or the
\* first new one
UsedFingerprints ==
    { generation_jobs[i].query_fingerprint : i \in DOMAIN generation_jobs }
        \cup { search[r].query_fingerprint : r \in DOMAIN search }
FreshFingerprint(fp) ==
    \/ fp \in UsedFingerprints
    \/ /\ Fingerprints \ UsedFingerprints # {}
       /\ fp = CHOOSE f \in Fingerprints : f \notin UsedFingerprints

\* the coordinator while no job has a video: the other steps of search_jobs
\* are not reached
Enqueuing ==
    \E r \in DOMAIN search :
        \/ \E u \in Users, fp \in Fingerprints, cands \in CandidateLists({}) :
               FreeSlot(r) /\ FreshFingerprint(fp) /\ SearchBegin(r, u, fp, cands)
        \/ SearchPartition(r)
        \/ EnqueueFind(r)
        \/ EnqueueCount(r)
        \/ EnqueueInsert(r)

Coordinator ==
    \E r \in DOMAIN search :
        \/ \E u \in Users, fp \in Fingerprints, cands \in CandidateLists({}) :
               FreeSlot(r) /\ FreshFingerprint(fp) /\ SearchBegin(r, u, fp, cands)
        \/ \E u \in Users, fp \in Fingerprints :
               FreeSlot(r) /\ FreshFingerprint(fp) /\ SearchBeginFallback(r, u, fp)
        \/ \E cands \in CandidateLists({}) : SearchRetry(r, cands)
        \/ SearchRetryFails(r)
        \/ SearchPartition(r)
        \/ SearchReset(r)
        \/ SearchAllVideos(r)
        \/ EnqueueFind(r)
        \/ EnqueueCount(r)
        \/ EnqueueInsert(r)
        \/ MarkSeen(r)

\* the coordinator over the large catalog
Browsing ==
    \E r \in DOMAIN search :
        \/ /\ FreeSlot(r)
           /\ budget.searches > 0
           /\ \E u \in Users, fp \in Fingerprints, cands \in RankedLists({}) :
                  FreshFingerprint(fp) /\ SearchBegin(r, u, fp, cands)
        \/ \E u \in Users, fp \in Fingerprints :
               FreeSlot(r) /\ FreshFingerprint(fp) /\ SearchBeginFallback(r, u, fp)
        \/ /\ search[r].pc = "retry"
           /\ \E cands \in RankedLists({}) : SearchRetry(r, cands)
        \/ SearchRetryFails(r)
        \/ SearchPartition(r)
        \/ SearchReset(r)
        \/ SearchAllVideos(r)
        \/ EnqueueFind(r)
        \/ EnqueueCount(r)
        \/ EnqueueInsert(r)
        \/ MarkSeen(r)

\* the clients' calls of the view ledger
Ledger ==
    \E u \in Users :
        \/ \E g \in jobs : mark_job_as_seen(u, Str(g))
        \/ reset_user_job_views(u)

WorkerPool ==
    \E w \in DOMAIN worker :
        \/ reset_stale_jobs(w)
        \/ WorkerAt(w, {"poll"}) /\ FirstPolling(w) /\ claim_job(w)
        \/ DescriptionFound(w)
        \/ VideoGenerated(w)
        \/ upload_hls_to_spaces(w)
        \/ MarkIndexed(w)
        \/ create_video_document(w)
        \/ DuplicateVideo(w)
        \/ MarkReady(w)
        \/ ProcessFails(w)
        \/ WorkerCrash(w)

Clock ==
    \/ \E i \in DOMAIN generation_jobs : LeaseAges(i)
    \/ GraceElapses

Next == Coordinator \/ WorkerPool \/ Clock

Spec == Init /\ [][Next]_vars

SpecSequential == InitSequential /\ [][Next]_vars

SpecCoordinator == InitCoordinator /\ [][Enqueuing]_vars

SpecRetries == InitRetries /\ [][Next]_vars

SpecCatalog == InitCatalog /\ [][Browsing]_vars

SpecPartition == InitPartition /\ [][Browsing]_vars

SpecRejections == InitRejections /\ [][Browsing]_vars

SpecBacklog == InitBacklog /\ [][Browsing]_vars

NextLedger == Coordinator \/ Ledger

\* the coordinator, its requests given by their query text
Querying ==
    \E r \in DOMAIN search :
        \/ /\ FreeSlot(r)
           /\ budget.searches > 0
           /\ \E u \in Users, text_prompt \in Queries, cands \in CandidateLists({}) :
                  search_jobs(r, u, text_prompt, cands)
        \/ /\ search[r].pc = "retry"
           /\ \E cands \in CandidateLists({}) : SearchRetry(r, cands)
        \/ SearchRetryFails(r)
        \/ SearchPartition(r)
        \/ SearchReset(r)
        \/ SearchAllVideos(r)
        \/ EnqueueFind(r)
        \/ EnqueueCount(r)
        \/ EnqueueInsert(r)
        \/ MarkSeen(r)

SpecQueries == InitQueries /\ [][Querying]_vars

SpecLedger == InitLedger /\ [][NextLedger]_vars

\* every lease of an abandoned job runs out
Expiry == \E i \in DOMAIN generation_jobs : LeaseExpires(i)

\* run_worker's sweep
Sweep == \E w \in DOMAIN worker : reset_stale_jobs(w)

NextLease == Enqueuing \/ WorkerPool \/ Clock \/ Expiry

\* run_worker loops for ever: a worker process that is up takes its next step,
\* the sweep included, and time passes
Fairness ==
    /\ WF_vars(WorkerPool)
    /\ WF_vars(Sweep)
    /\ WF_vars(Expiry)
    /\ WF_vars(GraceElapses)

SpecLease == InitLease /\ [][NextLease]_vars /\ Fairness

SpecQueue == InitQueue /\ [][NextLease]_vars

SpecClaims == InitClaims /\ [][NextLease]_vars

\* one step of a worker process that stays up: run_worker's loop and the
\* process_job it calls
run_worker(w) ==
    \/ reset_stale_jobs(w)
    \/ WorkerAt(w, {"poll"}) /\ FirstPolling(w) /\ claim_job(w)
    \/ DescriptionFound(w)
    \/ VideoGenerated(w)
    \/ upload_hls_to_spaces(w)
    \/ MarkIndexed(w)
    \/ create_video_document(w)
    \/ DuplicateVideo(w)
    \/ MarkReady(w)
    \/ ProcessFails(w)

NextAttempts == Enqueuing \/ (\E w \in DOMAIN worker : run_worker(w)) \/ Clock \/ Expiry

\* no worker process dies: each goes on with its loop, every call it makes
\* returns, and time passes
FairnessAttempts ==
    /\ \A w \in {"w1", "w2"} : WF_vars(run_worker(w))
    /\ WF_vars(Expiry)
    /\ WF_vars(GraceElapses)

SpecAttempts == InitAttempts /\ [][NextAttempts]_vars /\ FairnessAttempts

\* worker w1 stays up, worker w2 may die and be started again
NextProgress == NextAttempts \/ WorkerCrash("w2")

SpecProgress == InitProgress /\ [][NextProgress]_vars /\ FairnessAttempts

-----------------------------------------------------------------------------
(* Properties *)

JobIds == DOMAIN generation_jobs

SameTarget(i, j) ==
    /\ generation_jobs[i].query_fingerprint = generation_jobs[j].query_fingerprint
    /\ generation_jobs[i].greenhouse_id = generation_jobs[j].greenhouse_id

\* C1: at most one generation job per (query_fingerprint, greenhouse_id) is in
\* a status other than 'failed', also under concurrent enqueues.
UniqueLiveGeneration ==
    \A i, j \in JobIds :
        (i < j /\ SameTarget(i, j))
            => (generation_jobs[i].status = "failed" \/ generation_jobs[j].status = "failed")

\* the job the enqueue call of slot r is about already exists in one of `statuses`
TargetExistsIn(r, statuses) ==
    \E i \in JobIds :
        /\ generation_jobs[i].query_fingerprint = search[r].query_fingerprint
        /\ generation_jobs[i].greenhouse_id = Head(search[r].jobs_to_generate)
        /\ generation_jobs[i].status \in statuses

\* C2: an enqueue for a (fingerprint, job) whose earlier generation job is
\* queued, running or ready is rejected by its existence check: it goes on to
\* neither the quota check nor the insert, the queue is unchanged and no job id
\* is added to the request's generation_job_ids.
SequentialDedup ==
    [][ \A r \in DOMAIN search :
          ( /\ search[r].pc = "enqueue_find"
            /\ search'[r] # search[r]
            /\ TargetExistsIn(r, {"queued", "running", "ready"}) )
          => /\ generation_jobs' = generation_jobs
             /\ search'[r].pc \notin {"enqueue_count", "enqueue_insert"}
             /\ IF search'[r].pc = "idle"
                THEN last_response'.generation_job_ids = search[r].generation_job_ids
                ELSE search'[r].generation_job_ids = search[r].generation_job_ids ]_vars

\* C2 witness: the only generation job is ready, and a later search that
\* triggered generation got no job id although its user has no active job
DedupRejected ==
    /\ Len(generation_jobs) = 1
    /\ generation_jobs[1].status = "ready"
    /\ budget.searches = 0
    /\ \A r \in DOMAIN search : search[r].pc = "idle"
    /\ last_response.generation_triggered
    /\ last_response.generation_job_ids = <<>>

\* C3: no user has more than MAX_USER_CONCURRENT_JOBS + 1 generation jobs that
\* are queued or running.
UserQuotaSoft ==
    \A u \in Users : ActiveCount(u) <= MAX_USER_CONCURRENT_JOBS + 1

\* C4: a response with generation_triggered = true carries at least one
\* generation job id.
TriggeredHasJobIds ==
    last_response.generation_triggered => last_response.generation_job_ids # <<>>

\* started_at holds the age of the timestamp: the same timestamp only grows older
SameTimestamp(old, new) == new = old \/ (old = "fresh" /\ new = "stale")

\* C5: once a generation job is ready, no step changes its status, its
\* retry_count, its error or its lease fields worker_id and started_at.
ReadyIsTerminal ==
    [][ \A i \in JobIds :
          generation_jobs[i].status = "ready" =>
              /\ generation_jobs'[i].status = "ready"
              /\ generation_jobs'[i].retry_count = generation_jobs[i].retry_count
              /\ generation_jobs'[i].error = generation_jobs[i].error
              /\ generation_jobs'[i].worker_id = generation_jobs[i].worker_id
              /\ SameTimestamp(generation_jobs[i].started_at, generation_jobs'[i].started_at) ]_vars

\* C6: every ready generation job has a ready Video row whose video_id is the
\* job's greenhouse_id and whose s3_key is the uploaded manifest
\* hls/<output_video_id>/master.m3u8.
ReadyHasVideo ==
    \A i \in JobIds :
        generation_jobs[i].status = "ready" =>
            \E k \in DOMAIN videos :
                /\ videos[k].video_id = generation_jobs[i].greenhouse_id
                /\ videos[k].status = "ready"
                /\ videos[k].s3_key = ManifestKey(generation_jobs[i].output_video_id)
                /\ videos[k].s3_key \in objects

\* C6 witness: a generation job has been processed to ready
SomeJobReady ==
    \E i \in JobIds : generation_jobs[i].status = "ready" /\ generation_jobs[i].greenhouse_id = 12

\* C7: a running job has worker_id and started_at set, a queued job has both null.
LeaseFieldsMatchStatus ==
    \A i \in JobIds :
        /\ generation_jobs[i].status = "running" =>
              (generation_jobs[i].worker_id # NULL /\ generation_jobs[i].started_at # NULL)
        /\ generation_jobs[i].status = "queued" =>
              (generation_jobs[i].worker_id = NULL /\ generation_jobs[i].started_at = NULL)

\* C8: a failed job has retry_count <= MAX_RETRIES.
FailedWithinRetries ==
    \A i \in JobIds :
        generation_jobs[i].status = "failed" => generation_jobs[i].retry_count <= MAX_RETRIES

DuplicateInsertIsSuccess ==
    [][ \A w \in DOMAIN worker :
          ( /\ worker[w].pc = "insert"
            /\ VideoIdTaken(ToInt(worker[w].job.output_video_id))
            /\ worker'[w].pc # "insert"
            /\ budget' = budget )
          => generation_jobs'[worker[w].job.job_id].status = "ready" ]_vars

\* a step in which worker w writes to the queue document of the job it holds
WritesItsJob(w) ==
    /\ worker[w].pc # "poll"
    /\ worker'[w].pc # worker[w].pc
    /\ generation_jobs'[worker[w].job.job_id] # generation_jobs[worker[w].job.job_id]

\* C12: a worker's write to its job takes effect only while the job is still
\* under that worker's lease (worker_id is the writer, the status is one of the
\* statuses a processing worker leaves behind); otherwise the document stays
\* as it is.
WritesAreCompareAndSet ==
    [][ \A w \in DOMAIN worker :
          WritesItsJob(w) =>
              /\ generation_jobs[worker[w].job.job_id].worker_id = w
              /\ generation_jobs[worker[w].job.job_id].status \in {"running", "uploaded", "indexed"} ]_vars

\* a step in which worker w's claim returns a job
Claims(w) == worker[w].pc = "poll" /\ worker'[w].pc # "poll"

\* C13: a claim takes exactly one job from queued (older than the grace
\* window) to running, with worker_id the claimer and started_at set, returns
\* that document to the claimer alone and leaves every other document as it
\* is; no claim returns a job when no such queued job exists.
ClaimIsAtomic ==
    [][ \A w \in DOMAIN worker :
          Claims(w) =>
              LET j == worker'[w].job.job_id
              IN /\ Claimable # {}
                 /\ generation_jobs[j].status = "queued"
                 /\ j <= grace_idx
                 /\ generation_jobs'[j].status = "running"
                 /\ generation_jobs'[j].worker_id = w
                 /\ generation_jobs'[j].started_at # NULL
                 /\ worker'[w].job = generation_jobs'[j]
                 /\ \A i \in JobIds \ {j} : generation_jobs'[i] = generation_jobs[i]
                 /\ \A v \in DOMAIN worker \ {w} : worker'[v].pc = worker[v].pc ]_vars

\* C13 witness: of two polling workers one has claimed the only job and the
\* other finds nothing to claim
OneClaimerWins ==
    \E w, v \in DOMAIN worker :
        /\ w # v
        /\ worker[w].pc = "describe"
        /\ generation_jobs[worker[w].job.job_id].worker_id = w
        /\ worker[v].pc = "poll"
        /\ grace_idx = Len(generation_jobs)
        /\ Claimable = {}

\* a step in which worker w's processing attempt ends in its failure handler
AttemptFails(w) ==
    /\ worker[w].pc \in {"describe", "render", "upload", "index", "insert"}
    /\ worker'[w].pc = "poll"
    /\ generation_jobs' # generation_jobs

\* C17: a failed attempt on a job whose retry_count is below MAX_RETRIES
\* requeues it with retry_count one higher, the lease cleared and the error
\* recorded; on a job whose retry_count is MAX_RETRIES or more it marks the
\* job failed with the error recorded.
FailureHandling ==
    [][ \A w \in DOMAIN worker :
          AttemptFails(w) =>
              LET old == generation_jobs[worker[w].job.job_id]
                  new == generation_jobs'[worker[w].job.job_id]
              IN IF old.retry_count < MAX_RETRIES
                 THEN /\ new.status = "queued"
                      /\ new.retry_count = old.retry_count + 1
                      /\ new.worker_id = NULL
                      /\ new.started_at = NULL
                      /\ new.error # NULL
                 ELSE /\ new.status = "failed"
                      /\ new.retry_count = old.retry_count
                      /\ new.error # NULL ]_vars

\* the fields of a queue document that identify it (created_at is its position)
Identity(doc) == <<doc.job_id, doc.greenhouse_id, doc.query_fingerprint, doc.user_id>>

\* C19: the retry transition leaves the job with the retry_count of its claim
\* plus one and its identity unchanged, and a claim returns the queued
\* document with the same identity and retry_count.
RetryRoundTrip ==
    [][ \A w \in DOMAIN worker :
          /\ (AttemptFails(w) /\ generation_jobs'[worker[w].job.job_id].status = "queued") =>
                /\ Identity(generation_jobs'[worker[w].job.job_id]) = Identity(worker[w].job)
                /\ generation_jobs'[worker[w].job.job_id].retry_count = worker[w].job.retry_count + 1
          /\ Claims(w) =>
                /\ Identity(worker'[w].job) = Identity(generation_jobs[worker'[w].job.job_id])
                /\ worker'[w].job.retry_count = generation_jobs[worker'[w].job.job_id].retry_count ]_vars

\* C20: the job a claim returns is the first in created_at order among the
\* jobs that are queued and older than the grace window.
ClaimIsFifo ==
    [][ \A w \in DOMAIN worker :
          Claims(w) =>
              \A i \in JobIds :
                  (generation_jobs[i].status = "queued" /\ i <= grace_idx)
                      => worker'[w].job.job_id <= i ]_vars

\* C20 witness: a job requeued after a failed attempt has been claimed again
\* while a job enqueued after it waits, queued and past the grace window
RequeuedClaimedFirst ==
    /\ Len(generation_jobs) = 2
    /\ generation_jobs[1].status = "running"
    /\ generation_jobs[1].retry_count = 1
    /\ generation_jobs[2].status = "queued"
    /\ grace_idx = 2
    /\ \E w \in DOMAIN worker : Holds(w, 1) /\ worker[w].job.retry_count = 1

\* generation job i is in a status a processing worker left behind and no
\* worker is processing it
Abandoned(i) ==
    /\ i \in JobIds
    /\ generation_jobs[i].status \in {"running", "uploaded", "indexed"}
    /\ \A w \in DOMAIN worker : ~ Holds(w, i)

\* generation job i is queued with its lease cleared
Requeued(i) ==
    /\ i \in JobIds
    /\ generation_jobs[i].status = "queued"
    /\ generation_jobs[i].worker_id = NULL
    /\ generation_jobs[i].started_at = NULL

\* C11: a job whose worker died while it held it, in status running, uploaded
\* or indexed, is eventually queued again with its lease cleared.
LeaseReclaimed ==
    \A i \in 1..2 : Abandoned(i) ~> Requeued(i)

\* C18: a job abandoned in status running is changed by the sweep alone, which
\* queues it with retry_count one higher and the lease cleared, and this
\* eventually happens; the worker that completes a job leaves it ready with
\* exactly one Video row of its video_id.
CrashRecovery ==
    /\ [][ \A i \in JobIds :
             ( /\ Abandoned(i)
               /\ generation_jobs[i].status = "running"
               /\ generation_jobs'[i].status # "running" )
             => /\ Requeued(i)'
                /\ generation_jobs'[i].retry_count = generation_jobs[i].retry_count + 1 ]_vars
    /\ [][ \A w \in DOMAIN worker :
             (worker[w].pc = "finish" /\ worker'[w].pc = "poll" /\ budget' = budget)
             => /\ generation_jobs'[worker[w].job.job_id].status = "ready"
                /\ Cardinality({ k \in DOMAIN videos' :
                       videos'[k].video_id = worker[w].job.greenhouse_id }) = 1 ]_vars
    /\ \A i \in 1..2 : (Abandoned(i) /\ generation_jobs[i].status = "running") ~> Requeued(i)

\* a step in which the handler of slot r returns its response
Returns(r) == search[r].pc # "idle" /\ search'[r].pc = "idle"

\* C14: a search response lists at most TARGET_COUNT jobs, count is their
\* number, and each of them has a ready Video row.
ResponseWithinCatalog ==
    last_response.status_code = 200 =>
        /\ Len(last_response.greenhouse_ids) <= TARGET_COUNT
        /\ last_response.count = Len(last_response.greenhouse_ids)
        /\ \A k \in DOMAIN last_response.greenhouse_ids :
              \E v \in DOMAIN videos :
                  /\ videos[v].video_id = ToInt(last_response.greenhouse_ids[k])
                  /\ videos[v].status = "ready"

\* C14 witness: a response was cut to TARGET_COUNT jobs of a larger catalog
ResponseCut ==
    /\ last_response.status_code = 200
    /\ last_response.count = TARGET_COUNT
    /\ Len(videos) > TARGET_COUNT

\* C15: when a response is returned, the view ledger holds every (user, job)
\* of the response.
ReturnedAreSeen ==
    [][ \A r \in DOMAIN search :
          (Returns(r) /\ last_response'.status_code = 200) =>
              \A k \in DOMAIN last_response'.greenhouse_ids :
                  <<last_response'.user_id, Int32(ToInt(last_response'.greenhouse_ids[k]))>> \in views' ]_vars

\* C15 witness: the recovery path has returned jobs after deleting the user's views
RecoveryMarkedSeen ==
    /\ last_response.status_code = 200
    /\ last_response.user_id = "u1"
    /\ Len(last_response.greenhouse_ids) > 1
    /\ last_response.greenhouse_ids[1] = Str(7)
    /\ \A k \in DOMAIN last_response.greenhouse_ids :
          <<"u1", Int32(ToInt(last_response.greenhouse_ids[k]))>> \in views

\* C16: a search that deletes no views returns none of the jobs that the
\* same user's search before it returned.
NoRepeat ==
    [][ \A r \in DOMAIN search :
          ( /\ Returns(r)
            /\ ~ search[r].views_reset
            /\ last_response.status_code = 200
            /\ last_response'.status_code = 200
            /\ last_response.user_id = search[r].user_id )
          => Range(last_response.greenhouse_ids) \cap Range(last_response'.greenhouse_ids) = {} ]_vars

\* C16 witness: a user with no views was returned job 7 and then, the video of
\* job 12 generated in between, job 12 alone
SecondSearchIsNew ==
    /\ budget.searches = 0
    /\ \A r \in DOMAIN search : search[r].pc = "idle"
    /\ last_response.status_code = 200
    /\ last_response.user_id = "u2"
    /\ last_response.greenhouse_ids = <<Str(12)>>
    /\ {<<"u2", Int32(7)>>, <<"u2", Int32(12)>>} \subseteq views

\* the candidates of request r, in candidate order, with a ready video or
\* without (has_video) and at or above the threshold or below it (above)
Candidates(r, has_video, above) ==
    LET Ready(g) == \E k \in DOMAIN videos : videos[k].video_id = g /\ videos[k].status = "ready"
        Picked(j) == /\ Ready(j.greenhouse_id) = has_video
                     /\ (j.score >= SIMILARITY_THRESHOLD) = above
    IN SelectSeq(search[r].job_results, Picked)

\* the request of slot r after the step, whether in flight or just answered
ResultsAfter(r) ==
    IF search'[r].pc = "idle" THEN last_response'.greenhouse_ids ELSE search'[r].results_to_return

\* C21: on the normal path the result list is (A ++ B)[:TARGET_COUNT] in
\* candidate order, A the candidates with a ready video at or above the
\* threshold and B those below it; the enqueue loop runs over
\* C[:min(TARGET_COUNT - |A|, MAX_GENERATE_PER_REQUEST)] when |A| < TARGET_COUNT
\* (C the candidates at or above the threshold without a ready video) and over
\* nothing otherwise, one call per job in that order; the response lists the
\* result list.
NormalPathPartition ==
    [][ \A r \in DOMAIN search :
          /\ (search[r].pc = "catalog" /\ search'[r] # search[r]) =>
                LET A == Candidates(r, TRUE, TRUE)
                    B == Candidates(r, TRUE, FALSE)
                    C == Candidates(r, FALSE, TRUE)
                    AB == A \o B
                    n == Min(TARGET_COUNT - Len(A), MAX_GENERATE_PER_REQUEST)
                    G == IF Len(A) < TARGET_COUNT THEN SubSeq(C, 1, Min(n, Len(C))) ELSE <<>>
                IN (AB # <<>> \/ search[r].seen = {}) =>
                      /\ ResultsAfter(r) =
                            [ k \in 1..Min(TARGET_COUNT, Len(AB)) |-> Str(AB[k].greenhouse_id) ]
                      /\ search'[r].jobs_to_generate = [ k \in DOMAIN G |-> G[k].greenhouse_id ]
                      /\ (G # <<>>) = (search'[r].pc = "enqueue_find")
          /\ (search[r].pc \in {"enqueue_find", "enqueue_count", "enqueue_insert"}
                 /\ search'[r] # search[r]) =>
                /\ ResultsAfter(r) = search[r].results_to_return
                /\ IF search'[r].pc \in {"enqueue_count", "enqueue_insert"}
                   THEN search'[r].jobs_to_generate = search[r].jobs_to_generate
                   ELSE /\ search'[r].jobs_to_generate = Tail(search[r].jobs_to_generate)
                        /\ (search'[r].pc = "enqueue_find") = (Tail(search[r].jobs_to_generate) # <<>>)
          /\ (search[r].pc = "mark_seen" /\ search'[r] # search[r]) =>
                ResultsAfter(r) = search[r].results_to_return ]_vars

\* C21 witness: of eight candidates, six with a ready video (7..10 at or above
\* the threshold) and 5 and 6 without, the response lists 7..11 and the one
\* job enqueued is for 5
PartitionCut ==
    /\ last_response.status_code = 200
    /\ last_response.greenhouse_ids = <<Str(7), Str(8), Str(9), Str(10), Str(11)>>
    /\ last_response.generation_job_ids = <<1>>
    /\ Len(generation_jobs) = 1
    /\ generation_jobs[1].greenhouse_id = 5

\* C22: when TARGET_COUNT or more candidates have a ready video at or above
\* the threshold, the request makes no enqueue call and leaves the queue as it
\* is, and its response has generation_triggered false and no generation job
\* id.
EnoughReadyNoGeneration ==
    [][ \A r \in DOMAIN search :
          /\ ( /\ search[r].pc = "catalog"
                /\ search'[r] # search[r]
                /\ Len(Candidates(r, TRUE, TRUE)) >= TARGET_COUNT )
              => /\ search'[r].pc = "mark_seen"
                 /\ search'[r].jobs_to_generate = <<>>
                 /\ ~ search'[r].generation_triggered
                 /\ search'[r].generation_job_ids = <<>>
                 /\ generation_jobs' = generation_jobs
          /\ (search[r].pc = "mark_seen" /\ search'[r] # search[r])
              => /\ generation_jobs' = generation_jobs
                 /\ IF search'[r].pc = "idle"
                    THEN /\ last_response'.generation_triggered = search[r].generation_triggered
                         /\ last_response'.generation_job_ids = search[r].generation_job_ids
                    ELSE /\ search'[r].pc = "mark_seen"
                         /\ search'[r].generation_triggered = search[r].generation_triggered
                         /\ search'[r].generation_job_ids = search[r].generation_job_ids ]_vars

\* C22 witness: a user without views got TARGET_COUNT jobs, the first of them
\* job 8, with nothing enqueued
EnoughReadyAnswered ==
    /\ last_response.status_code = 200
    /\ last_response.user_id = "u2"
    /\ last_response.greenhouse_ids = <<Str(8), Str(9), Str(10), Str(11), Str(12)>>
    /\ ~ last_response.generation_triggered
    /\ last_response.generation_job_ids = <<>>
    /\ generation_jobs = <<>>

\* the rows of user u in the view ledger, before and after the step
ViewsOf(u) == { v \in views : v[1] = u }
ViewsAfterOf(u) == { v \in views' : v[1] = u }

\* C23: a request whose candidates include no job with a ready video, of a
\* user who had seen jobs when it began, makes no enqueue call (even when
\* candidates at or above the threshold lack a video), deletes the user's
\* views, returns the first TARGET_COUNT (or fewer) ready videos of the whole
\* catalog with generation_triggered false and no generation job id, and
\* leaves the user with views of exactly the returned jobs.
AvailableEmptyRecovery ==
    [][ \A r \in DOMAIN search :
          /\ ( /\ search[r].pc = "catalog"
                /\ search'[r] # search[r]
                /\ Candidates(r, TRUE, TRUE) \o Candidates(r, TRUE, FALSE) = <<>>
                /\ search[r].seen # {} )
              => /\ search'[r].pc = "reset"
                 /\ search'[r].jobs_to_generate = <<>>
                 /\ generation_jobs' = generation_jobs
          /\ (search[r].pc = "reset" /\ search'[r] # search[r])
              => /\ search'[r].pc = "all_videos"
                 /\ ViewsAfterOf(search[r].user_id) = {}
                 /\ generation_jobs' = generation_jobs
          /\ (search[r].pc = "all_videos" /\ search'[r] # search[r])
              => LET ready == { k \in DOMAIN videos : videos[k].status = "ready" }
                     first == { k \in ready :
                                  Cardinality({ l \in ready : l < k }) < TARGET_COUNT }
                 IN /\ search'[r].pc = "mark_seen"
                    /\ Len(search'[r].results_to_return) = Cardinality(first)
                    /\ { ToInt(search'[r].results_to_return[k]) :
                            k \in DOMAIN search'[r].results_to_return }
                          = { videos[k].video_id : k \in first }
                    /\ ~ search'[r].generation_triggered
                    /\ search'[r].generation_job_ids = <<>>
                    /\ search'[r].jobs_to_generate = <<>>
                    /\ generation_jobs' = generation_jobs
          /\ (Returns(r) /\ search[r].views_reset /\ last_response'.status_code = 200)
              => ViewsAfterOf(search[r].user_id) =
                    { <<search[r].user_id, Int32(ToInt(last_response'.greenhouse_ids[k]))>> :
                        k \in DOMAIN last_response'.greenhouse_ids } ]_vars

\* C23 witness: the user who had seen job 12 was returned the first
\* TARGET_COUNT videos of the catalog, that of the inactive job 4 among them,
\* and has views of exactly these
RecoveredFromCatalog ==
    /\ last_response.status_code = 200
    /\ last_response.user_id = "u1"
    /\ last_response.greenhouse_ids = <<Str(4), Str(7), Str(8), Str(9), Str(10)>>
    /\ ~ last_response.generation_triggered
    /\ generation_jobs = <<>>
    /\ ViewsOf("u1") = { <<"u1", Int32(g)>> : g \in {4, 7, 8, 9, 10} }

\* C24: a request that found no candidates while its user had seen jobs
\* deletes the user's views at that point, and deletes them at no other point
\* before it returns.
AutoResetOnce ==
    [][ \A r \in DOMAIN search :
          /\ (search[r].pc = "retry" /\ search'[r] # search[r])
              => ViewsAfterOf(search[r].user_id) = {}
          /\ (search[r].views_reset /\ search'[r] # search[r])
              => search[r].pc # "reset" ]_vars

\* the enqueue call the request of slot r is in is rejected by its existence
\* check, or by its check of the user's active jobs
Rejected(r) ==
    \/ /\ search[r].pc = "enqueue_find"
       /\ \E i \in JobIds :
             /\ generation_jobs[i].query_fingerprint = search[r].query_fingerprint
             /\ generation_jobs[i].greenhouse_id = Head(search[r].jobs_to_generate)
             /\ generation_jobs[i].status # "failed"
    \/ /\ search[r].pc = "enqueue_count"
       /\ Cardinality({ i \in JobIds :
             /\ generation_jobs[i].user_id = search[r].user_id
             /\ generation_jobs[i].status \in {"queued", "running"} }) >= MAX_USER_CONCURRENT_JOBS

\* C25: an enqueue call that is rejected, as a duplicate or because the user
\* is at the limit, inserts nothing and adds no generation job id, and the
\* request goes on: to its next enqueue call or to marking its result list as
\* seen; the request is answered 200 with that result list, every job of it in
\* the user's views.
RejectedEnqueueSkipped ==
    [][ \A r \in DOMAIN search :
          /\ (Rejected(r) /\ search'[r] # search[r]) =>
                /\ generation_jobs' = generation_jobs
                /\ ResultsAfter(r) = search[r].results_to_return
                /\ IF search'[r].pc = "idle"
                   THEN /\ last_response'.status_code = 200
                        /\ last_response'.generation_job_ids = search[r].generation_job_ids
                        /\ search[r].results_to_return = <<>>
                   ELSE /\ search'[r].pc \in {"enqueue_find", "mark_seen"}
                        /\ search'[r].generation_job_ids = search[r].generation_job_ids
          /\ (Returns(r) /\ search[r].pc \in {"enqueue_find", "enqueue_count", "enqueue_insert", "mark_seen"}) =>
                /\ last_response'.status_code = 200
                /\ last_response'.greenhouse_ids = search[r].results_to_return
                /\ \A k \in DOMAIN search[r].results_to_return :
                      <<search[r].user_id, Int32(ToInt(search[r].results_to_return[k]))>> \in views' ]_vars

\* C25 witness: u1's request enqueued jobs 3 and 5 and was refused job 6 at
\* the limit; u2's request with the same query was refused 3 and 5 as
\* duplicates and enqueued 6; both were returned job 7
BothRejectionsAnswered ==
    /\ Len(generation_jobs) = 3
    /\ generation_jobs[3].greenhouse_id = 6
    /\ generation_jobs[3].user_id = "u2"
    /\ generation_jobs[3].query_fingerprint = generation_jobs[1].query_fingerprint
    /\ generation_jobs[2].query_fingerprint = generation_jobs[1].query_fingerprint
    /\ generation_jobs[1].user_id = "u1"
    /\ generation_jobs[2].user_id = "u1"
    /\ last_response.status_code = 200
    /\ last_response.user_id = "u2"
    /\ last_response.greenhouse_ids = <<Str(7)>>
    /\ last_response.generation_job_ids = <<3>>
    /\ {<<"u1", Int32(7)>>, <<"u2", Int32(7)>>} \subseteq views

\* C26: no query of the vector index, the initial one or the re-run after the
\* views were deleted, ends the request with an error response.
IndexFailureDegrades ==
    [][ \A r \in DOMAIN search :
          (search[r].pc \in {"idle", "retry"} /\ search'[r] # search[r])
              => ~ (search'[r].pc = "idle" /\ last_response'.status_code = 500) ]_vars

\* C30: an attempt that ends at the description check (description missing or
\* shorter than 50 characters) leaves its job failed with the reason recorded
\* and its retry_count as it was; the job is not queued again.
ShortDescriptionFails ==
    [][ \A w \in DOMAIN worker :
          (worker[w].pc = "describe" /\ AttemptFails(w)) =>
              LET old == generation_jobs[worker[w].job.job_id]
                  new == generation_jobs'[worker[w].job.job_id]
              IN /\ new.status = "failed"
                 /\ new.error # NULL
                 /\ new.retry_count = old.retry_count ]_vars

\* C27: a view of (user, job) comes into being only in the mark-seen loop of a
\* search of that user, for a job of that search's result list, the list its
\* response carries as job_ids.
ViewsComeFromResponses ==
    [][ \A v \in views' \ views :
          \E r \in DOMAIN search :
              /\ search[r].pc = "mark_seen"
              /\ search[r].user_id = v[1]
              /\ Str(AsInt(v[2])) \in Range(search[r].results_to_return) ]_vars

\* C28: the view ledger holds at most one record per (user, job), whatever
\* calls have marked the pair seen.
OneViewPerPair ==
    \A v, w \in views : (v[1] = w[1] /\ AsInt(v[2]) = AsInt(w[2])) => v = w

\* the words of a query text as a client reads them: the maximal runs without
\* a space, as <<first, last>> positions
WordsAt(q) ==
    { w \in (DOMAIN q) \X (DOMAIN q) :
        /\ w[1] <= w[2]
        /\ \A i \in w[1]..w[2] : q[i] # " "
        /\ (w[1] = 1 \/ q[w[1] - 1] = " ")
        /\ (w[2] = Len(q) \/ q[w[2] + 1] = " ") }

\* the word of q at w, lowercased, its punctuation dropped
Token(q, w) ==
    LET Letter(c) == c # ","
        word == SubSeq(q, w[1], w[2])
    IN SelectSeq([ i \in DOMAIN word |-> IF word[i] = "B" THEN "b" ELSE word[i] ], Letter)

\* p and q have the same lowercased, punctuation-stripped tokens, each as many
\* times (a word of punctuation alone is no token)
SameTokens(p, q) ==
    \A t \in { Token(p, w) : w \in WordsAt(p) } \cup { Token(q, w) : w \in WordsAt(q) } :
        t # <<>> =>
            Cardinality({ w \in WordsAt(p) : Token(p, w) = t })
                = Cardinality({ w \in WordsAt(q) : Token(q, w) = t })

\* the text a fingerprint was computed from
HashedText(fingerprint) == fingerprint.sha256

\* C29: an enqueue call for a job, made for a query, is rejected by its
\* existence check when a live generation job for that job carries the
\* fingerprint of a text with the same lowercased, punctuation-stripped
\* tokens as the query: nothing is inserted and the call does not go on to its
\* quota check or insert.
FingerprintDedup ==
    [][ \A r \in DOMAIN search :
          ( /\ search[r].pc = "enqueue_find"
            /\ \/ search'[r].pc # "enqueue_find"
               \/ search'[r].jobs_to_generate # search[r].jobs_to_generate ) =>
              \A i \in JobIds :
                  ( /\ generation_jobs[i].greenhouse_id = Head(search[r].jobs_to_generate)
                    /\ generation_jobs[i].status # "failed"
                    /\ SameTokens(HashedText(generation_jobs[i].query_fingerprint),
                                  search[r].text_prompt) )
                  => /\ generation_jobs' = generation_jobs
                     /\ search'[r].pc \notin {"enqueue_count", "enqueue_insert"} ]_vars

\* C29 witness: the request for "b a" is marking its result seen after its
\* only enqueue call was refused: the one job of the queue carries the
\* fingerprint of "a B"
DedupAcrossVariants ==
    /\ Len(generation_jobs) = 1
    /\ generation_jobs[1].query_fingerprint = compute_query_fingerprint(<<"a", " ", "B">>)
    /\ \E r \in DOMAIN search :
          /\ search[r].pc = "mark_seen"
          /\ search[r].text_prompt = <<"b", " ", "a">>
          /\ search[r].generation_triggered
          /\ search[r].generation_job_ids = <<>>

\* a step of the sweep: a running job is queued again and no process_job and
\* no request has moved
SweepStep ==
    /\ worker' = worker
    /\ search' = search
    /\ \E i \in JobIds :
          generation_jobs[i].status = "running" /\ generation_jobs'[i].status = "queued"

\* C31: the sweep changes exactly the jobs that are running with a started_at
\* older than the threshold: each becomes queued with worker_id and started_at
\* null and retry_count one higher, its other fields as they were; every other
\* job, the videos and the views are unchanged.
SweepFrame ==
    [][ SweepStep =>
          /\ DOMAIN generation_jobs' = DOMAIN generation_jobs
          /\ \A i \in JobIds :
                IF generation_jobs[i].status = "running" /\ generation_jobs[i].started_at = "stale"
                THEN generation_jobs'[i] =
                        [ generation_jobs[i] EXCEPT !.status = "queued",
                                                    !.worker_id = NULL,
                                                    !.started_at = NULL,
                                                    !.retry_count = generation_jobs[i].retry_count + 1 ]
                ELSE generation_jobs'[i] = generation_jobs[i]
          /\ videos' = videos
          /\ views' = views
          /\ objects' = objects ]_vars

\* C31 witness: of two running jobs the sweep has queued the one whose lease
\* was stale and left the other, its lease fresh, with its worker
SweptOneOfTwo ==
    /\ Len(generation_jobs) = 2
    /\ generation_jobs[1].status = "queued"
    /\ generation_jobs[1].retry_count = 1
    /\ generation_jobs[1].error = NULL
    /\ generation_jobs[2].status = "running"
    /\ generation_jobs[2].started_at = "fresh"
    /\ generation_jobs[2].retry_count = 0
    /\ views # {}

\* C32: at most one worker at a time is in process_job with a given
\* generation job.
ExclusiveLease ==
    \A i \in JobIds : Cardinality({ w \in DOMAIN worker : Holds(w, i) }) <= 1

\* the response of the step is the empty one: no job, nothing generated
EmptyResponseAfter ==
    /\ last_response'.status_code = 200
    /\ last_response'.greenhouse_ids = <<>>
    /\ last_response'.count = 0
    /\ ~ last_response'.generation_triggered
    /\ last_response'.generation_job_ids = <<>>
    /\ generation_jobs' = generation_jobs

\* C33: a request whose first candidate list is empty goes on to the re-run
\* when its user has seen jobs and is answered with the empty response when
\* not; the re-run deletes exactly the views of that user, its candidates are
\* active jobs whether seen or not, and when it finds none the request is
\* answered with the empty response; nothing is enqueued on the way.
FallbackEmptyRecovery ==
    [][ \A r \in DOMAIN search :
          /\ (search[r].pc = "idle" /\ search'[r].pc = "retry") =>
                /\ search'[r].seen = SeenInts(search'[r].user_id)
                /\ search'[r].seen # {}
                /\ search'[r].job_results = <<>>
                /\ views' = views
                /\ generation_jobs' = generation_jobs
          /\ (search[r].pc = "idle" /\ search'[r].pc = "catalog") =>
                search'[r].job_results # <<>>
          /\ (search[r].pc = "idle" /\ search'[r].pc = "idle" /\ budget' # budget) =>
                /\ SeenInts(last_response'.user_id) = {}
                /\ views' = views
                /\ EmptyResponseAfter
          /\ (search[r].pc = "retry" /\ search'[r].pc # "retry") =>
                /\ ViewsAfterOf(search[r].user_id) = {}
                /\ views' = views \ ViewsOf(search[r].user_id)
                /\ generation_jobs' = generation_jobs
                /\ search'[r].pc \in {"catalog", "idle"}
                /\ search'[r].pc = "catalog" =>
                      /\ search'[r].job_results # <<>>
                      /\ \A k \in DOMAIN search'[r].job_results :
                            search'[r].job_results[k].greenhouse_id \in jobs
                /\ (search'[r].pc = "idle" /\ last_response'.status_code = 200) =>
                      EmptyResponseAfter ]_vars

\* C33 witness: the re-run of a request whose user had seen job 12 has
\* deleted the user's views and found job 12 among its candidates
RerunUnfiltered ==
    \E r \in DOMAIN search :
        /\ search[r].pc = "catalog"
        /\ search[r].views_reset
        /\ search[r].seen = {12}
        /\ ViewsOf(search[r].user_id) = {}
        /\ \E k \in DOMAIN search[r].job_results : search[r].job_results[k].greenhouse_id = 12

\* C34: the jobs a request sets out to enqueue are fixed when it partitions
\* its candidates: at most min(TARGET_COUNT, MAX_GENERATE_PER_REQUEST) of
\* them, each a candidate of the request with score >= SIMILARITY_THRESHOLD
\* and no ready video in the catalog at that step; afterwards the request only
\* works the list off from its head, and every document added to the queue is
\* for the head of the list of some request: queued, retry_count 0, no
\* worker_id, no started_at, and the target job's id as output_video_id.
BoundedEnqueue ==
    [][ /\ \A r \in DOMAIN search :
             LET before == search[r].jobs_to_generate
                 after  == search'[r].jobs_to_generate
             IN IF search[r].pc = "catalog"
                THEN /\ Len(after) <= Min(TARGET_COUNT, MAX_GENERATE_PER_REQUEST)
                     /\ \A k, l \in DOMAIN after : k # l => after[k] # after[l]
                     /\ \A k \in DOMAIN after :
                           /\ \E c \in DOMAIN search[r].job_results :
                                 /\ search[r].job_results[c].greenhouse_id = after[k]
                                 /\ search[r].job_results[c].score >= SIMILARITY_THRESHOLD
                           /\ ~ \E v \in DOMAIN videos :
                                 videos[v].video_id = after[k] /\ videos[v].status = "ready"
                ELSE \/ after = before
                     \/ before # <<>> /\ after = Tail(before)
        /\ Len(generation_jobs') > Len(generation_jobs) =>
             \E r \in DOMAIN search :
                 /\ search[r].pc = "enqueue_insert"
                 /\ search'[r].jobs_to_generate = Tail(search[r].jobs_to_generate)
                 /\ Len(generation_jobs') = Len(generation_jobs) + 1
                 /\ \A i \in JobIds : generation_jobs'[i] = generation_jobs[i]
                 /\ LET doc == generation_jobs'[Len(generation_jobs')]
                        target == Head(search[r].jobs_to_generate)
                    IN /\ doc.greenhouse_id = target
                       /\ doc.user_id = search[r].user_id
                       /\ doc.query_fingerprint = search[r].query_fingerprint
                       /\ doc.status = "queued"
                       /\ doc.retry_count = 0
                       /\ doc.worker_id = NULL
                       /\ doc.started_at = NULL
                       /\ doc.output_video_id = Str(target) ]_vars

\* C34 witness: a request that found six candidates without a video set out
\* to enqueue five, has enqueued job 2 and has four more to go
FirstOfFiveEnqueued ==
    /\ Len(generation_jobs) = 1
    /\ generation_jobs[1].greenhouse_id = 2
    /\ generation_jobs[1].output_video_id = Str(2)
    /\ generation_jobs[1].status = "queued"
    /\ \E r \in DOMAIN search :
          /\ search[r].pc = "enqueue_find"
          /\ search[r].jobs_to_generate = <<3, 4, 5, 6>>

\* worker w leaves process_job through its except branch
ExceptBranch(w) ==
    /\ worker[w].pc \in {"describe", "render", "upload", "insert"}
    /\ worker'[w].pc = "poll"

BoundedAttempts ==
    \A w \in DOMAIN worker :
        worker[w].pc # "poll" => worker[w].job.retry_count + 1 <= MAX_RETRIES + 1

\* C37: every generation job in the queue is ready or failed at some later
\* time, as long as one worker stays up and the calls of every worker that is
\* up return.
EveryJobSettles ==
    \A i \in 1..2 :
        (i \in JobIds) ~> (i \in JobIds /\ generation_jobs[i].status \in {"ready", "failed"})

\* the views that a step creates, changes or deletes
ViewsTouched == (views \ views') \cup (views' \ views)

\* a step of the request in slot r past its first
RequestStep(r) ==
    /\ search[r].pc # "idle"
    /\ \/ search'[r].pc # search[r].pc
       \/ search'[r].to_mark # search[r].to_mark

\* a call of reset_user_job_views that has an effect
ResetStep ==
    /\ search' = search
    /\ budget' = budget
    /\ views' \subseteq views
    /\ views' # views \/ last_response' # last_response

\* C38: every view that a step of a search request creates or deletes, its
\* delete_many included, is a view of the request's user; a reset for user u
\* deletes exactly the views of u, leaves every other view as it is, and
\* returns the number of views it deleted.
ViewsFrame ==
    [][ /\ \A r \in DOMAIN search :
             /\ RequestStep(r) => \A v \in ViewsTouched : v[1] = search[r].user_id
             /\ (search[r].pc = "idle" /\ budget'.searches < budget.searches) => views' = views
        /\ ResetStep =>
             LET u == last_response'.user_id
             IN /\ u \in Users
                /\ ViewsAfterOf(u) = {}
                /\ views' = views \ ViewsOf(u)
                /\ last_response'.deleted_count = Cardinality(ViewsOf(u))
                /\ last_response'.status_code = 200 ]_vars

\* C38 witness: a reset for u1 has deleted the three views of u1, one of them
\* written by a search, and reported 3, and the views of u2 are in place
ResetLeavesOthers ==
    /\ last_response = ResetResponse("u1", 3)
    /\ ViewsOf("u1") = {}
    /\ Cardinality(ViewsOf("u2")) = 2

====
